---- MODULE Spec2Model ----
(***************************************************************************)
(* Tabular epsilon-greedy Q-learning on a discretized CartPole             *)
(* (scripts/cartpole_q_learning.py): the environment adapter               *)
(* MyEnvironment with its discretizer, the Agent (act, update) and the     *)
(* training loop of main().                                                *)
(*                                                                         *)
(* Real numbers are exact rationals <<numerator, denominator>> in lowest   *)
(* terms with a positive denominator; the program's floats are idealised   *)
(* as reals.  The gym simulator is an external collaborator: it is a       *)
(* record that says which raw observations, rewards and terminations it    *)
(* can produce.                                                            *)
(***************************************************************************)
EXTENDS Integers, Sequences, FiniteSets

VARIABLES
    n_episodes,        \* global n_episodes (--episodes)
    simulator,         \* the gym environment behind MyEnvironment.environment
    environment,       \* the MyEnvironment object: a record of its attributes
    q_table,           \* Agent.q_table
    pc,                \* position in main() (or in the adapter's life)
    episode_index,     \* main: loop variable
    episode_count,     \* main: episode_count
    optimal_actions,   \* main: optimal_actions
    delta_update,      \* main: delta_update (list)
    observation,       \* main: observation
    next_observation,  \* main: next_observation
    action,            \* main: action
    reward,            \* main: reward
    done,              \* main: done
    running_delta,     \* main: running_delta
    running_accuracy,  \* main: running_accuracy
    error,             \* the exception that ended the program, or "none"
    result,            \* value returned by the last adapter query
    explored,          \* history: the branch Agent.act took last
    q_before,          \* history: Agent.q_table when Agent.update was last entered
    steps_taken,       \* history: environment.step() calls of this episode
    all_positive,      \* history: every reward so far was > 0
    raw_observation    \* history: the raw observation last given to set_observation

vars == <<n_episodes, simulator, environment, q_table, pc, episode_index,
          episode_count, optimal_actions, delta_update, observation,
          next_observation, action, reward, done, running_delta,
          running_accuracy, error, result, explored, q_before, steps_taken,
          all_positive, raw_observation>>

----------------------------------------------------------------------------
(* Bounds of the model *)

MaxEpisodes == 2       \* n_episodes ranges over 1..MaxEpisodes in Spec
MaxSteps == 2          \* steps after which the simulator's time limit ends an episode

----------------------------------------------------------------------------
(* Exact rational arithmetic *)

Abs(x) == IF x < 0 THEN -x ELSE x

RECURSIVE GCD(_, _)
GCD(a, b) == IF b = 0 THEN a ELSE GCD(b, a % b)

Norm(n, d) ==
    LET g == GCD(Abs(n), d) IN <<n \div g, d \div g>>

Rat(n) == <<n, 1>>

Add(x, y) ==
    LET l == (x[2] \div GCD(x[2], y[2])) * y[2]
    IN  Norm(x[1] * (l \div x[2]) + y[1] * (l \div y[2]), l)

Neg(x) == <<-x[1], x[2]>>

Sub(x, y) == Add(x, Neg(y))

Mul(x, y) ==
    LET g1 == GCD(Abs(x[1]), y[2])
        g2 == GCD(Abs(y[1]), x[2])
    IN  Norm((x[1] \div g1) * (y[1] \div g2), (x[2] \div g2) * (y[2] \div g1))

\* comparisons, over the least common denominator
LCD(x, y) == (x[2] \div GCD(x[2], y[2])) * y[2]

Less(x, y) == x[1] * (LCD(x, y) \div x[2]) < y[1] * (LCD(x, y) \div y[2])

Leq(x, y) == x[1] * (LCD(x, y) \div x[2]) <= y[1] * (LCD(x, y) \div y[2])

----------------------------------------------------------------------------
(* MyEnvironment *)

CartPole == <<"C", "a", "r", "t", "P", "o", "l", "e">>

CartPoleV1 == CartPole \o <<"-", "v", "1">>

CartPoleV0 == CartPole \o <<"-", "v", "0">>

MountainCarV0 == <<"M", "o", "u", "n", "t", "a", "i", "n", "C", "a", "r", "-", "v", "0">>

AcrobotV1 == <<"A", "c", "r", "o", "b", "o", "t", "-", "v", "1">>

EnvNames == {CartPoleV1, CartPoleV0, MountainCarV0, AcrobotV1}

\* sub in s, for Python strings
Contains(sub, s) ==
    \E i \in 0..(Len(s) - Len(sub)) : SubSeq(s, i + 1, i + Len(sub)) = sub

IsCartPoleAny(name) == TRUE

IsCartPole(name) == Contains(CartPole, name)

\* np.linspace(start, stop, num): num evenly spaced points, both ends included
Linspace(start, stop, num) ==
    [k \in 1..num |-> Add(start, Mul(<<k - 1, num - 1>>, Sub(stop, start)))]

CartPoleBinsWide(n) ==
    << Linspace(<<-24, 5>>, <<24, 5>>, n + 1),
       Linspace(Rat(-4), Rat(4), n + 1),
       Linspace(<<-209, 500>>, <<209, 500>>, n + 1),
       Linspace(Rat(-4), Rat(4), n + 1) >>

CartPoleBins(n) ==
    << Linspace(<<-24, 5>>, <<24, 5>>, n),
       Linspace(Rat(-4), Rat(4), n),
       Linspace(<<-209, 500>>, <<209, 500>>, n),
       Linspace(Rat(-4), Rat(4), n) >>

\* the object __init__ leaves behind; action and observation default to None:
\* <<>>, and an action a that has been set is <<a>>
MyEnvironment(name) ==
    IF IsCartPole(name)
    THEN [environment_name |-> name, action |-> <<>>, observation |-> <<>>,
          n_bins |-> 20, bins |-> CartPoleBins(20)]
    ELSE [environment_name |-> name, action |-> <<>>, observation |-> <<>>]

\* np.digitize(x, bins) for ascending bins, right = False, is
\* np.searchsorted(bins, x, side = 'right'): a bisection for the i with
\* bins[i-1] <= x < bins[i], 0 below bins[0], len(bins) from bins[-1] on.
\* lo and hi are 0-based, bins[k + 1] is the program's bins[k].
RECURSIVE SearchSortedRight(_, _, _, _)
SearchSortedRight(bins, x, lo, hi) ==
    IF lo >= hi THEN lo
    ELSE LET mid == (lo + hi) \div 2
         IN  IF Less(x, bins[mid + 1])
             THEN SearchSortedRight(bins, x, lo, mid)
             ELSE SearchSortedRight(bins, x, mid + 1, hi)

Digitize(x, bins) == SearchSortedRight(bins, x, 0, Len(bins))

get_action_space_length(env, sim) ==
    IF IsCartPole(env.environment_name) THEN 2 ELSE sim.action_n

get_observation_space_length(env, sim) ==
    IF IsCartPole(env.environment_name)
    THEN [i \in 1..sim.dims |-> env.n_bins + 1]
    ELSE <<sim.horizon + 1>>

\* the value of self.observation after set_observation(raw)
set_observation(env, sim, raw) ==
    IF IsCartPole(env.environment_name)
    THEN [i \in 1..sim.dims |-> Digitize(raw[i], env.bins[i]) - 1]
    ELSE raw

----------------------------------------------------------------------------
(* The gym simulator: what gym.make(name) hands back *)

\* a raw observation below every edge, inside the middle bin, above every edge
RawLow == <<Rat(-5), Rat(-5), <<-1, 2>>, Rat(-5)>>

RawMid == <<Rat(0), Rat(0), Rat(0), Rat(0)>>

RawHigh == <<Rat(5), Rat(5), <<1, 2>>, Rat(5)>>

\* per dimension: below the lowest edge, on it, on the highest edge
RawValues(bins) == {Rat(-5), bins[1], bins[Len(bins)]}

RawGrid ==
    LET b == CartPoleBins(20)
    IN  {<<a, v, t, w>> : a \in RawValues(b[1]), v \in RawValues(b[2]),
                          t \in RawValues(b[3]), w \in RawValues(b[4])}

\* a CartPole simulator: episodes start near the origin, a step moves the state
\* to either side, one side ends the episode (without reward), and the time
\* limit ends it after horizon steps
CartPoleSimulator ==
    [dims |-> 4, action_n |-> 2, horizon |-> MaxSteps,
     reset_raws |-> {RawMid}, step_raws |-> {RawLow, RawHigh},
     terminal |-> {RawHigh},
     reward_of |-> [raw \in {RawLow, RawHigh} |-> IF raw = RawHigh THEN Rat(0) ELSE Rat(1)]]

\* reward > 0 on every step, one step per episode
SyntheticSimulator ==
    [dims |-> 4, action_n |-> 2, horizon |-> 1,
     reset_raws |-> {RawMid}, step_raws |-> {RawHigh},
     terminal |-> {RawHigh}, reward_of |-> [raw \in {RawHigh} |-> Rat(1)]]

\* gym.make(name) as the adapter is exercised on its own
GymMake(name) ==
    IF IsCartPole(name)
    THEN [dims |-> 4, action_n |-> 2, horizon |-> MaxSteps,
          reset_raws |-> {RawMid}, step_raws |-> RawGrid,
          terminal |-> {}, reward_of |-> [raw \in RawGrid |-> Rat(1)]]
    ELSE [dims |-> 2, action_n |-> 3, horizon |-> MaxSteps,
          reset_raws |-> {<<Rat(0), Rat(0)>>},
          step_raws |-> {<<x, v>> : x \in {Rat(-5), Rat(0), Rat(5)},
                                    v \in {Rat(-5), Rat(0), Rat(5)}},
          terminal |-> {},
          reward_of |-> [raw \in {<<x, v>> : x \in {Rat(-5), Rat(0), Rat(5)},
                                            v \in {Rat(-5), Rat(0), Rat(5)}} |-> Rat(-1)]]

----------------------------------------------------------------------------
(* Agent *)

\* --alpha and --gamma: any learning rate in (0, 1) and discount in [0, 1);
\* binary fractions keep the denominators of the table's entries small
learning_rate == <<1, 2>>

gamma == <<3, 4>>

\* values np.random.uniform(low = -2, high = 0) can draw
InitQ == {Rat(-2), <<-1, 2>>}

\* numpy index of one axis: a negative index counts from the end
NormIndex(i, size) == IF i < 0 THEN i + size ELSE i

InBounds(i, size) == -size <= i /\ i < size

\* the cell of q_table that q_table[obs] addresses, for a table of the given shape
CellOf(obs, shape) == [k \in 1..Len(obs) |-> NormIndex(obs[k], shape[k])]

Addressable(obs, shape) ==
    /\ Len(obs) = Len(shape)
    /\ \A k \in 1..Len(obs) : InBounds(obs[k], shape[k])

Shape == get_observation_space_length(environment, simulator)

\* The table is dense, of shape Shape + [action_space_length]; the model stores
\* the rows the simulator's observations can address, the others are never touched.
StoredCells(env, sim) ==
    {CellOf(set_observation(env, sim, r), get_observation_space_length(env, sim)) :
        r \in sim.reset_raws \cup sim.step_raws}

Actions(env, sim) == 0..(get_action_space_length(env, sim) - 1)

\* initial rows: all actions tied, or the last action best
InitRows(env, sim) == {row \in [Actions(env, sim) -> InitQ] : row[0] = Rat(-2)}

AgentTables(env, sim) == [StoredCells(env, sim) -> InitRows(env, sim)]

\* np.max of one row
MaxRow(row) ==
    CHOOSE m \in {row[a] : a \in DOMAIN row} : \A a \in DOMAIN row : Leq(row[a], m)

\* np.argmax of one row: a left-to-right scan that keeps the first maximum
RECURSIVE ArgMaxScanLast(_, _, _)
ArgMaxScanLast(row, i, best) ==
    IF i \notin DOMAIN row THEN best
    ELSE ArgMaxScanLast(row, i + 1, IF Leq(row[best], row[i]) THEN i ELSE best)

RECURSIVE ArgMaxScan(_, _, _)
ArgMaxScan(row, i, best) ==
    IF i \notin DOMAIN row THEN best
    ELSE ArgMaxScan(row, i + 1, IF Less(row[best], row[i]) THEN i ELSE best)

ArgMaxLast(row) == ArgMaxScanLast(row, 1, 0)

ArgMax(row) == ArgMaxScan(row, 1, 0)

\* Agent.epsilon = np.exp(-5 * np.linspace(0, 1, n)): the indices it can be read at
EpsilonIndices(n) == 0..(n - 1)

\* what action_space.sample() can return
ActionSpaceSample(sim) == 0..(sim.action_n - 1)

\* Agent.act: the table it leaves (it only reads q_table[observation])
act_table_sorted(q, cell) ==
    [q EXCEPT ![cell] = [a \in DOMAIN q[cell] |->
        IF a = 0 THEN MaxRow(q[cell])
        ELSE CHOOSE m \in {q[cell][b] : b \in DOMAIN q[cell]} :
                 \A b \in DOMAIN q[cell] : Leq(m, q[cell][b])]]

act_table(q, cell) == q

\* Agent.update: the table it leaves
UpdatedTableOnPolicy(q, shape, obs, a, next_obs, r) ==
    LET cell == CellOf(obs, shape)
        q_value == q[cell][a]
        next_q_value_estimate == q[CellOf(next_obs, shape)][a]
        temporal_difference_target == Add(r, Mul(gamma, next_q_value_estimate))
    IN  [q EXCEPT ![cell][a] =
            Add(q_value, Mul(learning_rate, Sub(temporal_difference_target, q_value)))]

UpdatedTable(q, shape, obs, a, next_obs, r) ==
    LET cell == CellOf(obs, shape)
        q_value == q[cell][a]
        next_q_value_estimate == MaxRow(q[CellOf(next_obs, shape)])
        temporal_difference_target == Add(r, Mul(gamma, next_q_value_estimate))
    IN  [q EXCEPT ![cell][a] =
            Add(q_value, Mul(learning_rate, Sub(temporal_difference_target, q_value)))]

\* Agent.update: the value it returns
UpdateReturn(q, shape, obs, a, next_obs, r) ==
    LET cell == CellOf(obs, shape)
    IN  Sub(UpdatedTable(q, shape, obs, a, next_obs, r)[cell][a], q[cell][a])

----------------------------------------------------------------------------
(* main(): the training loop *)

running_length == 5

\* range(n)
range_inclusive(n) == 0..n

range(n) == 0..(n - 1)

\* sum() of a list of deltas
RECURSIVE Sum(_)
Sum(list) == IF list = <<>> THEN Rat(0) ELSE Add(Sum(SubSeq(list, 1, Len(list) - 1)), list[Len(list)])

\* delta < 0.0001
BelowThreshold(delta) == delta[1] <= (delta[2] - 1) \div 10000

\* the condition of the break that ends the loop early
StopCondition(index, n, accuracies, deltas) ==
    \/ index >= n + running_length
    \/ /\ \A i \in 1..Len(accuracies) : accuracies[i] = Rat(1)
       /\ \A i \in 1..Len(deltas) : BelowThreshold(deltas[i])
       /\ index >= running_length

\* lines 174-183: the counters of a new episode, reset and discretize
Reset ==
    /\ pc = "reset"
    /\ \E raw \in simulator.reset_raws :
          LET obs == set_observation(environment, simulator, raw)
          IN  /\ environment' = [environment EXCEPT !.observation = obs]
              /\ observation' = obs
              /\ raw_observation' = raw
    /\ episode_count' = 1
    /\ optimal_actions' = 0
    /\ delta_update' = <<>>
    /\ done' = FALSE
    /\ steps_taken' = 0
    /\ pc' = "act"
    /\ UNCHANGED <<n_episodes, simulator, q_table, episode_index, next_observation,
                   action, reward, running_delta, running_accuracy, error, result,
                   explored, q_before, all_positive>>

\* lines 192-193 with Agent.act: epsilon[episode_number] is read first, then
\* either action_space.sample() or np.argmax(q_table[observation])
Act ==
    /\ pc = "act"
    /\ IF episode_index \notin EpsilonIndices(n_episodes)
          \/ ~Addressable(observation, Shape)
       THEN /\ error' = "IndexError"
            /\ pc' = "crashed"
            /\ UNCHANGED <<action, environment, explored, q_table>>
       ELSE /\ \E explore \in BOOLEAN, sample \in ActionSpaceSample(simulator) :
                  LET a == IF explore THEN sample
                           ELSE ArgMax(q_table[CellOf(observation, Shape)])
                  IN  /\ action' = a
                      /\ environment' = [environment EXCEPT !.action = <<a>>]
                      /\ explored' = explore
            /\ q_table' = act_table(q_table, CellOf(observation, Shape))
            /\ pc' = "step"
            /\ UNCHANGED error
    /\ UNCHANGED <<n_episodes, simulator, episode_index, episode_count,
                   optimal_actions, delta_update, observation, next_observation,
                   reward, done, running_delta, running_accuracy, result, q_before,
                   steps_taken, all_positive, raw_observation>>

\* lines 194-196: environment.step() and the discretization of what it returns
Step ==
    /\ pc = "step"
    /\ \E raw \in simulator.step_raws :
          LET obs == set_observation(environment, simulator, raw)
              r == simulator.reward_of[raw]
          IN  /\ environment' = [environment EXCEPT !.observation = obs]
              /\ next_observation' = obs
              /\ raw_observation' = raw
              /\ reward' = r
              /\ done' = (raw \in simulator.terminal \/ steps_taken + 1 >= simulator.horizon)
              /\ all_positive' = (all_positive /\ Less(Rat(0), r))
    /\ steps_taken' = steps_taken + 1
    /\ explored' = FALSE
    /\ pc' = "update"
    /\ UNCHANGED <<n_episodes, simulator, q_table, episode_index, episode_count,
                   optimal_actions, delta_update, observation, action, running_delta,
                   running_accuracy, error, result, q_before>>

\* lines 198-204 with Agent.update, and the test of the while loop
Update ==
    /\ pc = "update"
    /\ IF ~Addressable(next_observation, Shape)
       THEN /\ error' = "IndexError"
            /\ pc' = "crashed"
            /\ UNCHANGED <<q_table, q_before, delta_update, observation,
                           optimal_actions, episode_count>>
       ELSE /\ q_before' = q_table
            /\ q_table' = UpdatedTable(q_table, Shape, observation, action,
                                       next_observation, reward)
            /\ delta_update' = Append(delta_update,
                   UpdateReturn(q_table, Shape, observation, action,
                                next_observation, reward))
            /\ observation' = next_observation
            /\ optimal_actions' = optimal_actions + (IF Less(Rat(0), reward) THEN 1 ELSE 0)
            /\ episode_count' = episode_count + 1
            /\ pc' = IF done THEN "record" ELSE "act"
            /\ UNCHANGED error
    /\ UNCHANGED <<n_episodes, simulator, environment, episode_index,
                   next_observation, action, reward, done, running_delta,
                   running_accuracy, result, explored, steps_taken, all_positive,
                   raw_observation>>

\* lines 207-217: the episode's statistics, the early stop, the next episode
EndEpisode ==
    /\ pc = "record"
    /\ running_delta' = Append(running_delta, Sum(delta_update))
    /\ running_accuracy' = Append(running_accuracy, Norm(optimal_actions, episode_count))
    /\ IF StopCondition(episode_index, n_episodes, running_accuracy', running_delta')
       THEN /\ pc' = "stopped"
            /\ UNCHANGED episode_index
       ELSE IF episode_index + 1 \in range(n_episodes)
       THEN /\ pc' = "reset"
            /\ episode_index' = episode_index + 1
       ELSE /\ pc' = "end"
            /\ UNCHANGED episode_index
    /\ UNCHANGED <<n_episodes, simulator, environment, q_table, episode_count,
                   optimal_actions, delta_update, observation, next_observation,
                   action, reward, done, error, result, explored, q_before,
                   steps_taken, all_positive, raw_observation>>

\* main() up to the loop: MyEnvironment('CartPole-v1'), the Agent with its random table
InitMain(n, sim) ==
    /\ n_episodes = n
    /\ simulator = sim
    /\ environment = MyEnvironment(CartPoleV1)
    /\ q_table \in AgentTables(MyEnvironment(CartPoleV1), sim)
    /\ q_before = q_table
    /\ pc = "reset"
    /\ raw_observation = <<>>
    /\ episode_index = 0
    /\ episode_count = 0
    /\ optimal_actions = 0
    /\ delta_update = <<>>
    /\ observation = <<>>
    /\ next_observation = <<>>
    /\ action = 0
    /\ reward = Rat(0)
    /\ done = FALSE
    /\ running_delta = <<>>
    /\ running_accuracy = <<>>
    /\ error = "none"
    /\ result = [op |-> "none"]
    /\ explored = FALSE
    /\ steps_taken = 0
    /\ all_positive = TRUE

Init ==
    \E n \in 1..MaxEpisodes : InitMain(n, CartPoleSimulator)

Next == Reset \/ Act \/ Step \/ Update \/ EndEpisode

Spec == Init /\ [][Next]_vars

\* the synthetic environment: reward > 0 on every step, more episodes than the window
InitSynthetic == InitMain(running_length + 2, SyntheticSimulator)

SpecSynthetic == InitSynthetic /\ [][Next]_vars

----------------------------------------------------------------------------
(* MyEnvironment on its own: the object right after __init__, then its methods *)

SetObservation ==
    /\ pc = "adapter"
    /\ \E raw \in simulator.reset_raws \cup simulator.step_raws :
          /\ environment' = [environment EXCEPT
                 !.observation = set_observation(environment, simulator, raw)]
          /\ raw_observation' = raw
    /\ UNCHANGED <<n_episodes, simulator, q_table, pc, episode_index, episode_count,
                   optimal_actions, delta_update, observation, next_observation,
                   action, reward, done, running_delta, running_accuracy, error,
                   result, explored, q_before, steps_taken, all_positive>>

GetActionSpaceLength ==
    /\ pc = "adapter"
    /\ result' = [op |-> "get_action_space_length",
                  value |-> get_action_space_length(environment, simulator)]
    /\ UNCHANGED <<n_episodes, simulator, environment, q_table, pc, episode_index,
                   episode_count, optimal_actions, delta_update, observation,
                   next_observation, action, reward, done, running_delta,
                   running_accuracy, error, explored, q_before, steps_taken,
                   all_positive, raw_observation>>

GetObservationSpaceLength ==
    /\ pc = "adapter"
    /\ result' = [op |-> "get_observation_space_length",
                  value |-> get_observation_space_length(environment, simulator)]
    /\ UNCHANGED <<n_episodes, simulator, environment, q_table, pc, episode_index,
                   episode_count, optimal_actions, delta_update, observation,
                   next_observation, action, reward, done, running_delta,
                   running_accuracy, error, explored, q_before, steps_taken,
                   all_positive, raw_observation>>

InitAdapter ==
    /\ \E name \in EnvNames :
          /\ environment = MyEnvironment(name)
          /\ simulator = GymMake(name)
    /\ pc = "adapter"
    /\ n_episodes = 1
    /\ q_table = <<>>
    /\ q_before = <<>>
    /\ raw_observation = <<>>
    /\ episode_index = 0
    /\ episode_count = 0
    /\ optimal_actions = 0
    /\ delta_update = <<>>
    /\ observation = <<>>
    /\ next_observation = <<>>
    /\ action = 0
    /\ reward = Rat(0)
    /\ done = FALSE
    /\ running_delta = <<>>
    /\ running_accuracy = <<>>
    /\ error = "none"
    /\ result = [op |-> "none"]
    /\ explored = FALSE
    /\ steps_taken = 0
    /\ all_positive = TRUE

NextAdapter == SetObservation \/ GetActionSpaceLength \/ GetObservationSpaceLength

SpecAdapter == InitAdapter /\ [][NextAdapter]_vars

----------------------------------------------------------------------------
(* Properties *)

Last(list) == list[Len(list)]

Discretized == pc \in {"act", "step", "update", "record"}

\* C1 (as claimed): every coordinate of the discretized state returned after
\* reset and after each step lies in [0, n_bins]; a raw value below the lowest
\* edge has index 0, a raw value at or above the highest edge has index n_bins.
C1_IndexInZeroToNBins ==
    Discretized =>
        \A i \in 1..Len(environment.observation) :
            LET index == environment.observation[i]
                edges == environment.bins[i]
            IN  /\ index \in 0..environment.n_bins
                /\ Less(raw_observation[i], edges[1]) => index = 0
                /\ Leq(edges[Len(edges)], raw_observation[i]) => index = environment.n_bins

\* C2: Agent.update(s, a, s', r) computes target = r + gamma * max_a' Q[s'][a']
\* on the table as it is before the call, changes Q[s][a], and nothing else, to
\* its old value plus delta = learning_rate * (target - old Q[s][a]), and
\* returns that delta, which is the new Q[s][a] minus the old one.
C2_UpdateRule ==
    [][pc = "update" /\ pc' # "crashed" =>
        LET s == CellOf(observation, Shape)
            s2 == CellOf(next_observation, Shape)
            old == q_table[s][action]
            best == CHOOSE m \in {q_table[s2][b] : b \in DOMAIN q_table[s2]} :
                        \A b \in DOMAIN q_table[s2] : ~Less(m, q_table[s2][b])
            target == Add(reward, Mul(gamma, best))
            delta == Mul(learning_rate, Sub(target, old))
            returned == Last(delta_update')
        IN  /\ q_table' = [q_table EXCEPT ![s][action] = Add(old, delta)]
            /\ returned = delta
            /\ Add(old, returned) = q_table'[s][action]
            /\ Len(delta_update') = Len(delta_update) + 1]_vars

\* an update with s' = s has changed the row it also took the maximum from
C2_Witness ==
    /\ pc \in {"act", "record"}
    /\ steps_taken >= 2
    /\ q_table[CellOf(observation, Shape)] # q_before[CellOf(observation, Shape)]

\* C3 (as claimed): in the synthetic environment (reward > 0 on every step), when
\* every recorded delta is about 0 and n_episodes > running_length, the loop
\* ends after exactly running_length episodes.
C3_StopsAfterRunningLength ==
    (/\ pc \in {"end", "stopped"}
     /\ all_positive
     /\ n_episodes > running_length
     /\ \A i \in 1..Len(running_delta) :
            BelowThreshold(running_delta[i]) /\ BelowThreshold(Neg(running_delta[i])))
    => Len(running_accuracy) = running_length

\* The break of lines 214-217 is never taken: an episode has at least one step
\* and episode_count starts at 1, so no recorded accuracy equals 1.0.
BreakNeverTaken ==
    /\ pc # "stopped"
    /\ \A i \in 1..Len(running_accuracy) : running_accuracy[i] # Rat(1)

\* C5 (as claimed): the accuracy recorded for an episode is the number of its
\* steps with reward > 0 divided by the number of environment.step() calls.
C5_AccuracyIsSuccessRatio ==
    (pc \in {"reset", "end", "stopped"} /\ Len(running_accuracy) > 0)
    => Last(running_accuracy) = Norm(optimal_actions, steps_taken)

\* the names without 'CartPole'
OtherFamilies == {MountainCarV0, AcrobotV1}

\* C6 (as claimed): an adapter for a name without 'CartPole' fails with a
\* ConfigurationError at construction.
C6_UnsupportedFamilyRejected ==
    environment.environment_name \in OtherFamilies => error = "ConfigurationError"

\* C6 (amended): construction for a name without 'CartPole' raises nothing and
\* leaves an adapter without n_bins and bins; its action count is the
\* simulator's, and set_observation stores the raw observation as it is.
C6_UnsupportedFamilyFallsThrough ==
    environment.environment_name \in OtherFamilies =>
        /\ error = "none"
        /\ DOMAIN environment = {"environment_name", "action", "observation"}
        /\ environment.observation = raw_observation
        /\ result.op = "get_action_space_length" => result.value = simulator.action_n

C6_Witness ==
    /\ pc = "adapter"
    /\ environment.environment_name = MountainCarV0
    /\ environment.observation # <<>>
    /\ result.op = "get_action_space_length"

\* C7: Agent.act leaves every entry of the Q-table as it was, on the
\* exploration and on the exploitation branch.
C7_ActKeepsTable == [][pc = "act" => q_table' = q_table]_vars

\* act has returned from its exploitation branch, after the table was updated
C7_Witness == pc = "step" /\ ~explored /\ steps_taken >= 1 /\ q_table # q_before

\* C8: on the exploitation branch Agent.act returns an action whose Q-value at
\* the state is maximal, the lowest such action when several are maximal.
C8_GreedyLowestIndex ==
    (pc = "step" /\ ~explored) =>
        LET row == q_table[CellOf(observation, Shape)]
        IN  /\ action \in DOMAIN row
            /\ \A b \in DOMAIN row : Leq(row[b], row[action])
            /\ \A b \in DOMAIN row : b < action => Less(row[b], row[action])

\* exploitation on a row whose two actions are tied
C8_Witness ==
    /\ pc = "step"
    /\ ~explored
    /\ action = 0
    /\ q_table[CellOf(observation, Shape)][0] = q_table[CellOf(observation, Shape)][1]

\* C9: the episode index stays in [0, n_episodes): the disjunct
\* episode_index >= n_episodes + running_length of the stop condition is never
\* true, Agent.act never reads epsilon beyond its length, and at most
\* n_episodes episodes are run.
C9_EpisodeIndexInRange ==
    /\ episode_index \in 0..(n_episodes - 1)
    /\ ~(episode_index >= n_episodes + running_length)
    /\ error # "IndexError"
    /\ pc # "crashed"
    /\ Len(running_accuracy) <= n_episodes
    /\ pc \in {"act", "step", "update", "record"} => Len(running_accuracy) < n_episodes

\* every episode has been run
C9_Witness ==
    /\ pc = "end"
    /\ n_episodes = MaxEpisodes
    /\ Len(running_accuracy) = n_episodes
    /\ episode_index = n_episodes - 1

\* C10: every discretized state the loop holds addresses an existing cell of
\* the table of shape [n_bins+1]^4 x 2, its action too, and two different
\* discretized states never address the same cell.
C10_CellsExistAndDiffer ==
    /\ Shape = [i \in 1..4 |-> environment.n_bins + 1]
    /\ Discretized =>
          /\ Addressable(observation, Shape)
          /\ CellOf(observation, Shape) \in DOMAIN q_table
    /\ pc \in {"update", "record"} =>
          /\ Addressable(next_observation, Shape)
          /\ CellOf(next_observation, Shape) \in DOMAIN q_table
          /\ action \in 0..(get_action_space_length(environment, simulator) - 1)
    /\ pc = "update" =>
          (CellOf(observation, Shape) = CellOf(next_observation, Shape)
              => observation = next_observation)

\* an update on the row reached through the index -1, on the way to the last bin
C10_Witness ==
    /\ pc = "update"
    /\ \A i \in 1..4 : observation[i] = -1 /\ next_observation[i] = environment.n_bins - 1

====
